---- MODULE Spec2Model ----
(***************************************************************************)
(* Reservation & Lock Engine of fr-server: the bucketed lock store, the    *)
(* two-call payment-gated commit protocol (POST /payments/intents, then    *)
(* POST /bookings), the payment processor's events, the booking lifecycle  *)
(* and the check-in and check-out of a stay, as concurrent request         *)
(* handlers over the shared collections.                                   *)
(*                                                                         *)
(* Time is counted in units of 30 minutes: the hold TTL and the cache TTL  *)
(* are 1 unit, an hour bucket is 2 units and a day bucket 48 units.        *)
(* Every awaited store or processor call of a handler is one step; the     *)
(* handler's local computation is folded into the step that follows it.    *)
(*                                                                         *)
(* One resource (listing) is modelled, always active; promo codes and the  *)
(* friendship guard are left out. The specifications share the actions and *)
(* differ in who runs: Spec has two handlers at a time on one request,     *)
(* SpecSeq one handler at a time on several requests, SpecQuote one        *)
(* handler across deployments with different tax rates, SpecHold the race  *)
(* of Step-A calls, SpecStay a booked window the clock passes over,        *)
(* SpecCheckinRace three handlers on one Reservation, SpecTtl abandoned    *)
(* holds under a fair clock and TTL monitor, SpecToken repeated Step-A     *)
(* calls with one idempotency key, SpecBlackout a listing with a blackout  *)
(* range, SpecIdem the idempotency cache of the fulfilment routes         *)
(* (getOrSetIdempotent) under concurrent calls with one key, SpecIdemLive  *)
(* the same with a caller that keeps running, SpecAvail the availability   *)
(* reader and the quote preview, SpecBuckets the bucket calendar called on *)
(* its own, and SpecOverlap Step-A calls for windows that overlap in time. *)
(***************************************************************************)
EXTENDS Integers, Sequences, FiniteSets, TLC

\* ---- program constants (in units of 30 minutes) ----
HourMs == 2
DayMs == 48
HoldMs == 1
CacheTtl == 1
CheckoutGraceMs == 24

\* ---- bounds of the model ----
MaxT == 3
MaxNow == 1
MaxPI == 2
MaxRace == 3
MaxBookings == 2
\* rounds of the loser's polling loop within waitForMs (1500 ms / 75 ms)
MaxPolls == 2
\* revisions of the Reservation the idempotent calls answer with
MaxRec == 2

Procs == {"p1", "p2", "p3"}
Pair == {"p1", "p2"}
Renters == {"r1", "r2"}
Tokens == {""}
\* the X-Idempotency-Key headers of the repeated calls: none, or one token
HdrTokens == {"", "t1"}
\* the requests made: r1 asks for a window of two hour buckets with an
\* unaligned end, r2 for either of its buckets alone
Requests == {<<"r1", 0, MaxT>>, <<"r2", HourMs, MaxT>>, <<"r2", 0, HourMs>>}
\* the request that two handlers at a time work on
PairRequests == {<<"r1", 0, MaxT>>}
\* the request whose stay is followed to its end
StayRequests == {<<"r2", HourMs, MaxT>>}
\* two renters' requests for the same window
TtlRequests == {<<"r1", 0, MaxT>>, <<"r2", 0, MaxT>>}
\* requests for windows that overlap in time, one of them with a start that
\* is not on an hour boundary, and for the window before them
OverlapRequests ==
  {<<"r1", 1, MaxT>>, <<"r2", HourMs, MaxT>>, <<"r2", 0, 1>>}
\* the race of Step-A calls: each handler with a request of its own, for
\* windows that pairwise share a bucket
RaceCalls ==
  {<<"p1", "r1", 0, MaxT>>, <<"p2", "r2", HourMs, MaxT>>, <<"p3", "r2", 0, MaxT>>}
TaxPcts == {0, 10}
HOUR_CATS == {"car", "boat", "jetski"}
Listings ==
  {[status |-> "active", instantBook |-> FALSE, category |-> "car", dailyCents |-> 100,
    blackouts |-> {}],
   [status |-> "active", instantBook |-> TRUE, category |-> "misc", dailyCents |-> 100,
    blackouts |-> {}],
   [status |-> "active", instantBook |-> FALSE, category |-> "misc", dailyCents |-> 100,
    blackouts |-> {}]}
\* listings with no blackout or one, which begins or ends inside a bucket
\* or covers whole buckets
AvailListings ==
  {[status |-> "active", instantBook |-> FALSE, category |-> c, dailyCents |-> 100,
    blackouts |-> bl] :
     c \in {"car", "misc"},
     bl \in {{}, {<<0, 1>>}, {<<1, HourMs>>}, {<<HourMs, MaxT>>}}}
\* listings whose owner has blacked out the range [HourMs, MaxT)
BlackoutListings ==
  {[status |-> "active", instantBook |-> FALSE, category |-> c, dailyCents |-> 100,
    blackouts |-> {<<HourMs, MaxT>>}] : c \in {"car", "misc"}}
LiveStatuses == {"requires_payment_method", "requires_action", "processing", "succeeded"}

VARIABLES
  now,       \* wall clock (Date.now())
  listing,   \* the Listing document
  taxPct,    \* TAX_RATE_PCT of the running deployment
  pis,       \* the processor's PaymentIntents, id = index
  events,    \* processor events not yet delivered to the webhook
  cache,     \* redis: pi:intent:<hash> -> PaymentIntent id, with expiry
  locks,     \* BookingLock collection
  bookings,  \* Booking collection, id = index
  calls,     \* the request handlers in flight: position and locals
  resp,      \* the response sent by the step just taken, if it sent one
  idem       \* redis: one idempotency key of the fulfilment routes, its
             \* in-flight lock, the record the calls act on, and the
             \* getOrSetIdempotent calls in flight

vars ==
  <<now, listing, taxPct, pis, events, cache, locks, bookings, calls, resp, idem>>

\* --------------------------------------------------------------------
\* Bucket calendar (utils/dates.ts)
\* --------------------------------------------------------------------
hourBucket(t) == <<"hour", t \div HourMs>>

dayBucket(t) == <<"day", t \div DayMs>>

RECURSIVE EnumLoop(_, _, _, _, _)
EnumLoop(t, e, w, g, out) ==
  IF t < e
    THEN EnumLoop(t + w, e, w, g,
                  Append(out, IF g = "hour" THEN hourBucket(t) ELSE dayBucket(t)))
    ELSE out

\* an enumeration that starts at the window's start, not at its bucket's
enumerateBucketsUnaligned(s, e, g) ==
  IF ~(e > s) THEN <<>>
  ELSE EnumLoop(s, e, IF g = "hour" THEN HourMs ELSE DayMs, g, <<>>)

enumerateBuckets(s, e, g) ==
  IF ~(e > s) THEN <<>>
  ELSE IF g = "hour"
    THEN EnumLoop((s \div HourMs) * HourMs, e, HourMs, g, <<>>)
    ELSE EnumLoop((s \div DayMs) * DayMs, e, DayMs, g, <<>>)

toUtcMidnight(t) == (t \div DayMs) * DayMs

Range(f) == {f[i] : i \in DOMAIN f}

pickGranularity(category) == IF category \in HOUR_CATS THEN "hour" ELSE "day"

buildBucketsAndGranularity(s, e) ==
  enumerateBuckets(s, e, pickGranularity(listing.category))

buildBucketsFromBooking(b) ==
  enumerateBuckets(IF b.g = "hour" THEN b.s ELSE toUtcMidnight(b.s),
                   IF b.g = "hour" THEN b.e ELSE toUtcMidnight(b.e), b.g)

\* --------------------------------------------------------------------
\* Quote engine (pricing/calc.ts): billable days times the daily rate,
\* plus tax at the deployment's rate
\* --------------------------------------------------------------------
ceilUnits(ms, unitMs) ==
  LET raw == (ms + unitMs - 1) \div unitMs IN IF raw < 1 THEN 1 ELSE raw

computeQuote(s, e) ==
  LET baseCents == ceilUnits(e - s, DayMs) * listing.dailyCents
  IN  baseCents + (baseCents * taxPct + 50) \div 100

\* --------------------------------------------------------------------
\* Lock store (locks/model.ts, locks/service.ts)
\* --------------------------------------------------------------------
piReason(h) == [kind |-> "pi", id |-> h]

bookingReason(b) == [kind |-> "booking", id |-> b]

\* a collection without the unique index
DupKeyNever(ls, bucket) == FALSE

\* the unique index {listingId, dateBucket}: an insert of a second document
\* for the bucket is refused with E11000
DupKey(ls, bucket) == \E l \in ls : l.bucket = bucket

unlockBuckets(ls, buckets) == {l \in ls : l.bucket \notin Range(buckets)}

\* a deleteMany that matches nothing
unlockByReasonNoop(ls, reason) == ls

\* a deletion by listing only
unlockByReasonAny(ls, reason) == {}

unlockByReason(ls, reason) == {l \in ls : l.reason # reason}

retagLocks(ls, fromReason, toReason) ==
  {IF l.reason = fromReason
     THEN [l EXCEPT !.reason = toReason, !.holdUntil = {}]
     ELSE l : l \in ls}

\* --------------------------------------------------------------------
\* Handlers
\* --------------------------------------------------------------------
IdleCall ==
  [pc |-> "idle", pi |-> 0, i |-> 0, hold |-> 0, bk |-> 0, retry |-> FALSE,
   to |-> "", refunded |-> FALSE, by |-> "", at |-> 0, quote |-> 0]

\* conflictBuckets is the list of that name in an error body; no body of
\* these handlers carries one
NoResp ==
  [op |-> "none", res |-> "", pi |-> 0, bk |-> 0, retry |-> FALSE, cp |-> {},
   conflictBuckets |-> {}]

Resp(op, res, pi, bk, retry) ==
  [op |-> op, res |-> res, pi |-> pi, bk |-> bk, retry |-> retry, cp |-> {},
   conflictBuckets |-> {}]

\* the response of a check-in or check-out: the record's state is read from
\* bookings[bk], cp is the checkpoint in the body
RespCp(op, res, bk, cp) ==
  [op |-> op, res |-> res, pi |-> 0, bk |-> bk, retry |-> FALSE, cp |-> cp,
   conflictBuckets |-> {}]

\* a getOrSetIdempotent call: its position, the authenticated user of the
\* request, lockOk, the polls that found nothing, the value it computed or
\* read, and the answer it is about to give
IdleCaller ==
  [pc |-> "idle", actor |-> "", lockOk |-> FALSE, n |-> 0, val |-> 0, ans |-> ""]

\* the {value, replay} a getOrSetIdempotent call returns, or the error its
\* compute threw; cp holds the value
RespIdem(res, v) == [NoResp EXCEPT !.op = "idem", !.res = res, !.cp = {v}]

\* sha1 of the X-Idempotency-Key header, or of the derived fingerprint
IntentKey(user, s, e, total, tok) ==
  IF tok # ""
    THEN <<"hdr", tok, 0, 0, 0>>
    ELSE <<"derived", user, s, e, total>>

Issue(ps, h) == [ps EXCEPT ![h].issued = TRUE]

\* the buckets of the window recorded in a handle's metadata
PiBuckets(h) == buildBucketsAndGranularity(pis[h].md.s, pis[h].md.e)

BookingOfPi(h) == {b \in 1..Len(bookings) : bookings[b].rentalIntentId = h}

InitOn(ls) ==
  /\ now = 0
  /\ listing \in ls
  /\ taxPct = 0
  /\ pis = <<>>
  /\ events = {}
  /\ cache = {}
  /\ locks = {}
  /\ bookings = <<>>
  /\ calls = [p \in Procs |-> IdleCall]
  /\ resp = NoResp
  /\ idem = [store |-> <<>>, lock |-> FALSE, rec |-> 0,
             callers |-> [p \in Procs |-> IdleCaller]]

Init == InitOn(Listings)

\* overlaps(aStart, aEnd, bStart, bEnd)
overlaps(aStart, aEnd, bStart, bEnd) == aStart < bEnd /\ bStart < aEnd

\* assertAvailable's blackoutHits: the listing's blackout ranges that the
\* window [s, e) overlaps
blackoutHits(s, e) == {b \in listing.blackouts : overlaps(s, e, b[1], b[2])}

\* ---- Step A: POST /payments/intents ------------------------------------

\* a lookup that never finds the cached handle
cacheHitNever(k) == {}

\* r.get(cacheKey) and stripe.paymentIntents.retrieve(cached): the cache
\* entries of key k whose handle is in a live status
cacheHit(k) ==
  {c \in cache : pis[c.pi].key = k /\ pis[c.pi].status \in LiveStatuses}

\* listing load, buckets, quote, idempotency cache lookup, and
\* stripe.paymentIntents.create under the idempotency key (a key the
\* processor has seen returns that key's PaymentIntent, or an error when the
\* parameters differ); cap bounds the handles the processor creates
PostIntents(p, user, s, e, tok, cap) ==
  /\ calls[p].pc = "idle"
  /\ LET buckets == buildBucketsAndGranularity(s, e)
         q == IF e > s THEN computeQuote(s, e) ELSE 0
         k == IntentKey(user, s, e, q, tok)
         hit == cacheHit(k)
         same == {h \in 1..Len(pis) : pis[h].key = k}
         md == [renterId |-> user, s |-> s, e |-> e, totalCents |-> q]
         fail(code) == /\ resp' = Resp("intent", code, 0, 0, FALSE)
                       /\ UNCHANGED <<pis, calls>>
     IN  IF listing.status # "active" THEN fail("LISTING_NOT_FOUND")
         ELSE IF Len(buckets) = 0 THEN fail("INVALID_WINDOW")
         ELSE IF q <= 0 THEN fail("NO_PRICING")
         ELSE IF hit # {}
           THEN LET h == (CHOOSE c \in hit : TRUE).pi
                IN  /\ resp' = Resp("intent", "REPLAY", h, 0, FALSE)
                    /\ pis' = Issue(pis, h)
                    /\ calls' = calls
         ELSE IF same # {}
           THEN LET h == CHOOSE h \in same : TRUE
                IN  IF pis[h].amount = q /\ pis[h].md = md
                      THEN /\ calls' = [calls EXCEPT ![p] =
                                [IdleCall EXCEPT !.pc = "a_lock", !.pi = h, !.i = 1,
                                                 !.hold = now + HoldMs]]
                           /\ resp' = NoResp
                           /\ pis' = pis
                      ELSE fail("STRIPE_ERROR")
         ELSE /\ Len(pis) < cap
              /\ pis' = Append(pis, [status |-> "requires_payment_method",
                                     amount |-> q, md |-> md, key |-> k,
                                     created |-> now, issued |-> FALSE,
                                     refunds |-> 0])
              /\ calls' = [calls EXCEPT ![p] =
                   [IdleCall EXCEPT !.pc = "a_lock", !.pi = Len(pis) + 1, !.i = 1,
                                    !.hold = now + HoldMs]]
              /\ resp' = NoResp
  /\ UNCHANGED <<now, listing, taxPct, events, cache, locks, bookings, idem>>

\* lockBuckets: insertMany({ordered: true}) writes the documents one by one,
\* in bucket order, and stops at the first duplicate key
LockInsert(p) ==
  LET c == calls[p]
      buckets == PiBuckets(c.pi)
      b == buckets[c.i]
  IN
  /\ c.pc = "a_lock"
  /\ IF DupKey(locks, b)
       THEN /\ locks' = locks
            /\ calls' = [calls EXCEPT ![p] = [IdleCall EXCEPT !.pc = "a_cancel", !.pi = c.pi]]
       ELSE /\ locks' = locks \cup
                 {[bucket |-> b, reason |-> piReason(c.pi), holdUntil |-> {c.hold}]}
            /\ calls' = [calls EXCEPT ![p] =
                 IF c.i = Len(buckets)
                   THEN [IdleCall EXCEPT !.pc = "a_cache", !.pi = c.pi]
                   ELSE [c EXCEPT !.i = c.i + 1]]
  /\ resp' = NoResp
  /\ UNCHANGED <<now, listing, taxPct, pis, events, cache, bookings, idem>>

\* catch: stripe.paymentIntents.cancel(pi.id), errors swallowed; 409 with
\* the body {error: {code: "UNAVAILABLE", message}}
CancelIntent(p) ==
  LET c == calls[p] IN
  /\ c.pc = "a_cancel"
  /\ IF pis[c.pi].status = "requires_payment_method"
       THEN /\ pis' = [pis EXCEPT ![c.pi].status = "canceled"]
            /\ events' = events \cup {[type |-> "canceled", pi |-> c.pi]}
       ELSE UNCHANGED <<pis, events>>
  /\ calls' = [calls EXCEPT ![p] = IdleCall]
  /\ resp' = Resp("intent", "UNAVAILABLE", c.pi, 0, FALSE)
  /\ UNCHANGED <<now, listing, taxPct, cache, locks, bookings, idem>>

\* r.set(cacheKey, pi.id, {NX, EX: 30 min}); 200 with the handle
CacheSet(p) ==
  LET c == calls[p] IN
  /\ c.pc = "a_cache"
  /\ cache' = IF \E x \in cache : pis[x.pi].key = pis[c.pi].key
                THEN cache
                ELSE cache \cup {[pi |-> c.pi, exp |-> now + CacheTtl]}
  /\ pis' = Issue(pis, c.pi)
  /\ calls' = [calls EXCEPT ![p] = IdleCall]
  /\ resp' = Resp("intent", "OK", c.pi, 0, FALSE)
  /\ UNCHANGED <<now, listing, taxPct, events, locks, bookings, idem>>

\* ---- Step B: POST /bookings -> createBooking ---------------------------

\* a createBooking without the status check
piNotSucceededNever(h) == FALSE

\* pi.status !== "succeeded"
piNotSucceeded(h) == pis[h].status # "succeeded"

\* no amount check at all
amountMismatchNever(h) == FALSE

\* an amount check that trusts the metadata total and skips the quote
amountMismatchCapturedOnly(h) == pis[h].amount # pis[h].md.totalCents

\* quote.totalCents !== snapshotTotalCents || pi.amount !== snapshotTotalCents
amountMismatch(h) ==
  \/ computeQuote(pis[h].md.s, pis[h].md.e) # pis[h].md.totalCents
  \/ pis[h].amount # pis[h].md.totalCents

\* the route's and the service's reads of the handle, the listing and the
\* quote, for a handle the processor knows
PostBookings(p, user, h) ==
  /\ calls[p].pc = "idle"
  /\ LET fail(code) == /\ resp' = Resp("booking", code, h, 0, BookingOfPi(h) # {})
                       /\ calls' = calls
     IN  IF listing.status # "active" THEN fail("LISTING_NOT_FOUND")
         ELSE IF piNotSucceeded(h) THEN fail("PI_NOT_SUCCEEDED")
         ELSE IF ~(pis[h].md.e > pis[h].md.s) THEN fail("INVALID_WINDOW")
         ELSE IF pis[h].md.renterId # user THEN fail("FORBIDDEN")
         ELSE IF amountMismatch(h) THEN fail("AMOUNT_MISMATCH")
         ELSE /\ calls' = [calls EXCEPT ![p] =
                   [IdleCall EXCEPT !.pc = "b_find", !.pi = h,
                                    !.retry = BookingOfPi(h) # {},
                                    !.quote = computeQuote(pis[h].md.s, pis[h].md.e)]]
              /\ resp' = NoResp
  /\ UNCHANGED <<now, listing, taxPct, pis, events, cache, locks, bookings, idem>>

\* BookingLock.find({reason: pi:<id>, dateBucket: {$in: buckets}})
FindLocks(p) ==
  LET c == calls[p]
      buckets == PiBuckets(c.pi)
      found == {l \in locks : l.reason = piReason(c.pi) /\ l.bucket \in Range(buckets)}
  IN
  /\ c.pc = "b_find"
  /\ calls' = [calls EXCEPT ![p] =
       [c EXCEPT !.pc = IF Cardinality(found) # Len(buckets) THEN "b_unlock" ELSE "b_create"]]
  /\ resp' = NoResp
  /\ UNCHANGED <<now, listing, taxPct, pis, events, cache, locks, bookings, idem>>

\* unlockByReason(listing, pi:<id>); 409 UNAVAILABLE
ReleaseHold(p) ==
  LET c == calls[p] IN
  /\ c.pc = "b_unlock"
  /\ locks' = unlockByReason(locks, piReason(c.pi))
  /\ calls' = [calls EXCEPT ![p] = IdleCall]
  /\ resp' = Resp("booking", "UNAVAILABLE", c.pi, 0, c.retry)
  /\ UNCHANGED <<now, listing, taxPct, pis, events, cache, bookings, idem>>

\* a collection without the unique sparse index
DupIntentNever(bs, h) == FALSE

\* the unique sparse index on paymentRefs.rentalIntentId
DupIntent(bs, h) == \E b \in 1..Len(bs) : bs[b].rentalIntentId = h

\* Booking.create(...) with pricingSnapshot.totalCents = quote.totalCents, the
\* quote this request computed before its amount check; a duplicate key is
\* not caught and ends the request
CreateDoc(p) ==
  LET c == calls[p]
      md == pis[c.pi].md
  IN
  /\ c.pc = "b_create"
  /\ IF DupIntent(bookings, c.pi)
       THEN /\ bookings' = bookings
            /\ calls' = [calls EXCEPT ![p] = IdleCall]
            /\ resp' = Resp("booking", "E11000", c.pi, 0, c.retry)
       ELSE /\ Len(bookings) < MaxBookings
            /\ bookings' = Append(bookings,
                 [renterId |-> md.renterId, s |-> md.s, e |-> md.e,
                  g |-> pickGranularity(listing.category),
                  totalCents |-> c.quote,
                  state |-> IF listing.instantBook THEN "accepted" ELSE "pending",
                  rentalIntentId |-> c.pi, paymentStatus |-> "paid",
                  checkin |-> {}, checkout |-> {}])
            /\ calls' = [calls EXCEPT ![p] =
                 [c EXCEPT !.pc = "b_retag", !.bk = Len(bookings) + 1]]
            /\ resp' = NoResp
  /\ UNCHANGED <<now, listing, taxPct, pis, events, cache, locks, idem>>

\* retagLocks(listing, pi:<id>, booking:<id>); 200 with the booking
RetagHold(p) ==
  LET c == calls[p] IN
  /\ c.pc = "b_retag"
  /\ locks' = retagLocks(locks, piReason(c.pi), bookingReason(c.bk))
  /\ calls' = [calls EXCEPT ![p] = IdleCall]
  /\ resp' = Resp("booking", "OK", c.pi, c.bk, c.retry)
  /\ UNCHANGED <<now, listing, taxPct, pis, events, cache, bookings, idem>>

\* ---- lifecycle: accept, decline, cancel ---------------------------------

\* acceptBooking: Booking.findById and the state guard
AcceptBooking(p, b) ==
  /\ calls[p].pc = "idle"
  /\ IF bookings[b].state # "pending"
       THEN /\ resp' = Resp("accept", "INVALID_STATE", 0, b, FALSE)
            /\ calls' = calls
       ELSE /\ resp' = NoResp
            /\ calls' = [calls EXCEPT ![p] =
                 [IdleCall EXCEPT !.pc = "l_save", !.bk = b, !.to = "accepted"]]
  /\ UNCHANGED <<now, listing, taxPct, pis, events, cache, locks, bookings, idem>>

\* declineBooking (by the host) and cancelPendingBooking (by the renter):
\* Booking.findById and the guards; to is the state the handler will save
ReleaseBooking(p, user, b, to) ==
  LET op == IF to = "declined" THEN "decline" ELSE "cancel"
      fail(code) == /\ resp' = Resp(op, code, 0, b, FALSE)
                    /\ calls' = calls
  IN
  /\ calls[p].pc = "idle"
  /\ IF to = "cancelled" /\ bookings[b].renterId # user THEN fail("FORBIDDEN")
     ELSE IF bookings[b].state # "pending" THEN fail("INVALID_STATE")
     ELSE /\ resp' = NoResp
          /\ calls' = [calls EXCEPT ![p] =
               [IdleCall EXCEPT !.bk = b, !.to = to,
                  !.pc = IF bookings[b].paymentStatus = "paid"
                           THEN "l_refund" ELSE "l_unlock"]]
  /\ UNCHANGED <<now, listing, taxPct, pis, events, cache, locks, bookings, idem>>

\* stripe.refunds.create({charge}); the processor refuses to refund a charge
\* twice, and the handler swallows the error
RefundCharge(p) ==
  LET c == calls[p]
      h == bookings[c.bk].rentalIntentId
  IN
  /\ c.pc = "l_refund"
  /\ pis' = [pis EXCEPT ![h].refunds = @ + 1]
  /\ calls' = [calls EXCEPT ![p] =
       [c EXCEPT !.pc = "l_unlock", !.refunded = (pis[h].refunds = 0)]]
  /\ resp' = NoResp
  /\ UNCHANGED <<now, listing, taxPct, events, cache, locks, bookings, idem>>

\* unlockBuckets(listing, buildBucketsFromBooking(b))
UnlockWindow(p) ==
  LET c == calls[p] IN
  /\ c.pc = "l_unlock"
  /\ locks' = unlockBuckets(locks, buildBucketsFromBooking(bookings[c.bk]))
  /\ calls' = [calls EXCEPT ![p] = [c EXCEPT !.pc = "l_save"]]
  /\ resp' = NoResp
  /\ UNCHANGED <<now, listing, taxPct, pis, events, cache, bookings, idem>>

\* b.save() writes the paths the handler modified; 200 with the new state
SaveBooking(p) ==
  LET c == calls[p] IN
  /\ c.pc = "l_save"
  /\ bookings' = [bookings EXCEPT ![c.bk] =
       [@ EXCEPT !.state = c.to,
                 !.paymentStatus = IF c.refunded THEN "refunded" ELSE @]]
  /\ calls' = [calls EXCEPT ![p] = IdleCall]
  /\ resp' = Resp(IF c.to = "accepted" THEN "accept"
                  ELSE IF c.to = "declined" THEN "decline" ELSE "cancel",
                  "OK", 0, c.bk, FALSE)
  /\ UNCHANGED <<now, listing, taxPct, pis, events, cache, locks, idem>>

\* ---- fulfilment: check-in, check-out -------------------------------------

\* the listing's host and the booking's renter
isParticipant(b, actor) == actor = "host" \/ actor = b.renterId

\* check-in is allowed from start through end, inclusive
inCheckinWindow(bk, t) == t >= bk.s /\ t <= bk.e

\* a check-out window without its end
inCheckoutWindowOpen(bk, t) == \A ci \in bk.checkin : t >= ci.at

\* check-out is allowed from the check-in time through end + 12h, inclusive
inCheckoutWindow(bk, t) ==
  \A ci \in bk.checkin : t >= ci.at /\ t <= bk.e + CheckoutGraceMs

\* checkIn: Booking.findById and the guards; the checkpoint is stamped with
\* the clock the window guard read
CheckIn(p, actor, b) ==
  LET bk == bookings[b]
      fail(code) == /\ resp' = RespCp("checkin", code, b, {})
                    /\ calls' = calls
  IN
  /\ calls[p].pc = "idle"
  /\ IF ~isParticipant(bk, actor) THEN fail("NOT_FOUND")
     ELSE IF bk.checkin # {}
       THEN /\ resp' = RespCp("checkin", "OK", b, bk.checkin)
            /\ calls' = calls
     ELSE IF bk.state # "accepted" THEN fail("INVALID_STATE")
     ELSE IF bk.paymentStatus # "paid" THEN fail("INVALID_STATE")
     ELSE IF ~inCheckinWindow(bk, now) THEN fail("INVALID_WINDOW")
     ELSE /\ resp' = NoResp
          /\ calls' = [calls EXCEPT ![p] =
               [IdleCall EXCEPT !.pc = "ci_update", !.bk = b, !.by = actor,
                                !.at = now]]
  /\ UNCHANGED <<now, listing, taxPct, pis, events, cache, locks, bookings, idem>>

\* an update by _id alone
CheckInUpdateUnfiltered(p) ==
  LET c == calls[p]
      cp == {[by |-> c.by, at |-> c.at]}
  IN
  /\ c.pc = "ci_update"
  /\ bookings' = [bookings EXCEPT ![c.bk] =
       [@ EXCEPT !.state = "in_progress", !.checkin = cp]]
  /\ calls' = [calls EXCEPT ![p] = IdleCall]
  /\ resp' = RespCp("checkin", "OK", c.bk, cp)
  /\ UNCHANGED <<now, listing, taxPct, pis, events, cache, locks, idem>>

\* Booking.findOneAndUpdate({state: "accepted", "checkin.at": {$exists:
\* false}}, {$set: {state: "in_progress", checkin}}); 200 with the updated
\* record, or on to the fallback when the filter matches nothing
CheckInUpdate(p) ==
  LET c == calls[p]
      bk == bookings[c.bk]
      cp == {[by |-> c.by, at |-> c.at]}
  IN
  /\ c.pc = "ci_update"
  /\ IF bk.state = "accepted" /\ bk.checkin = {}
       THEN /\ bookings' = [bookings EXCEPT ![c.bk] =
                 [@ EXCEPT !.state = "in_progress", !.checkin = cp]]
            /\ calls' = [calls EXCEPT ![p] = IdleCall]
            /\ resp' = RespCp("checkin", "OK", c.bk, cp)
       ELSE /\ bookings' = bookings
            /\ calls' = [calls EXCEPT ![p] = [c EXCEPT !.pc = "ci_reload"]]
            /\ resp' = NoResp
  /\ UNCHANGED <<now, listing, taxPct, pis, events, cache, locks, idem>>

\* checkOut: Booking.findById and the guards
CheckOut(p, actor, b) ==
  LET bk == bookings[b]
      fail(code) == /\ resp' = RespCp("checkout", code, b, {})
                    /\ calls' = calls
  IN
  /\ calls[p].pc = "idle"
  /\ IF ~isParticipant(bk, actor) THEN fail("NOT_FOUND")
     ELSE IF bk.checkout # {}
       THEN /\ resp' = RespCp("checkout", "OK", b, bk.checkout)
            /\ calls' = calls
     ELSE IF bk.state # "in_progress" THEN fail("INVALID_STATE")
     ELSE IF bk.checkin = {} THEN fail("INVALID_STATE")
     ELSE IF ~inCheckoutWindow(bk, now) THEN fail("INVALID_WINDOW")
     ELSE /\ resp' = NoResp
          /\ calls' = [calls EXCEPT ![p] =
               [IdleCall EXCEPT !.pc = "co_update", !.bk = b, !.by = actor,
                                !.at = now]]
  /\ UNCHANGED <<now, listing, taxPct, pis, events, cache, locks, bookings, idem>>

\* Booking.findOneAndUpdate({state: "in_progress", "checkout.at": {$exists:
\* false}}, {$set: {state: "completed", checkout}})
CheckOutUpdate(p) ==
  LET c == calls[p]
      bk == bookings[c.bk]
      cp == {[by |-> c.by, at |-> c.at]}
  IN
  /\ c.pc = "co_update"
  /\ IF bk.state = "in_progress" /\ bk.checkout = {}
       THEN /\ bookings' = [bookings EXCEPT ![c.bk] =
                 [@ EXCEPT !.state = "completed", !.checkout = cp]]
            /\ calls' = [calls EXCEPT ![p] = IdleCall]
            /\ resp' = RespCp("checkout", "OK", c.bk, cp)
       ELSE /\ bookings' = bookings
            /\ calls' = [calls EXCEPT ![p] = [c EXCEPT !.pc = "co_reload"]]
            /\ resp' = NoResp
  /\ UNCHANGED <<now, listing, taxPct, pis, events, cache, locks, idem>>

\* the fallback Booking.findById(bookingId) of either handler: 200 with the
\* record as it is now
Reload(p) ==
  LET c == calls[p] IN
  /\ c.pc \in {"ci_reload", "co_reload"}
  /\ resp' = IF c.pc = "ci_reload"
               THEN RespCp("checkin", "OK", c.bk, bookings[c.bk].checkin)
               ELSE RespCp("checkout", "OK", c.bk, bookings[c.bk].checkout)
  /\ calls' = [calls EXCEPT ![p] = IdleCall]
  /\ UNCHANGED <<now, listing, taxPct, pis, events, cache, locks, bookings, idem>>

\* ---- payment processor and its webhook ----------------------------------

\* the client confirms the payment with the client secret it was given
PaySucceeded(h) ==
  /\ pis[h].issued /\ pis[h].status = "requires_payment_method"
  /\ pis' = [pis EXCEPT ![h].status = "succeeded"]
  /\ events' = events \cup {[type |-> "succeeded", pi |-> h]}
  /\ resp' = NoResp
  /\ UNCHANGED <<now, listing, taxPct, cache, locks, bookings, calls, idem>>

\* POST /webhooks/stripe with payment_intent.payment_failed: an attempt of
\* the client on the open handle failed (the handle stays open for another
\* attempt) and the processor delivers the event at once
PayFailed(h) ==
  /\ pis[h].issued /\ pis[h].status = "requires_payment_method"
  /\ locks' = unlockByReason(locks, piReason(h))
  /\ resp' = NoResp
  /\ UNCHANGED <<now, listing, taxPct, pis, events, cache, bookings, calls, idem>>

\* POST /webhooks/stripe for a queued payment_intent.succeeded or
\* payment_intent.canceled event (delivered once per event id)
Webhook(ev) ==
  /\ ev \in events
  /\ events' = events \ {ev}
  /\ IF ev.type = "succeeded"
       THEN /\ bookings' = [b \in 1..Len(bookings) |->
                 IF bookings[b].rentalIntentId = ev.pi
                   THEN [bookings[b] EXCEPT !.paymentStatus = "paid"]
                   ELSE bookings[b]]
            /\ locks' = locks
       ELSE /\ locks' = unlockByReason(locks, piReason(ev.pi))
            /\ bookings' = bookings
  /\ resp' = NoResp
  /\ UNCHANGED <<now, listing, taxPct, pis, cache, calls, idem>>

\* ---- getOrSetIdempotent (check-in / check-out with X-Idempotency-Key) -------
\* One key; the stored result does not expire within the runs modelled (its
\* TTL is 24 h). compute is the wrapped checkIn / checkOut: it answers with
\* the Reservation document as it is when compute runs (idem.rec, its
\* revision), or throws: NOT_FOUND for a user who is neither its host nor
\* its renter, another error while the call is not allowed (revision 0).

\* the Reservation the key's route parameter names: renter r2's
IdemBooking == [renterId |-> "r2"]

Caller(p) == idem.callers[p]

SetCaller(p, c) == [idem EXCEPT !.callers[p] = c]

\* 1) client.get(key): a stored result is returned with replay: true
IdemGet(p, actor) ==
  /\ Caller(p).pc = "idle"
  /\ IF idem.store # <<>>
       THEN /\ resp' = RespIdem("REPLAY", idem.store[1])
            /\ idem' = idem
       ELSE /\ resp' = NoResp
            /\ idem' = SetCaller(p, [IdleCaller EXCEPT !.pc = "g_lock", !.actor = actor])
  /\ UNCHANGED <<now, listing, taxPct, pis, events, cache, locks, bookings, calls>>

\* a caller that does not wait for the winner
IdemLockNoWait(p) ==
  /\ Caller(p).pc = "g_lock"
  /\ idem' = IF ~idem.lock
               THEN [idem EXCEPT !.lock = TRUE,
                                 !.callers[p] = [@ EXCEPT !.pc = "g_again", !.lockOk = TRUE]]
               ELSE SetCaller(p, [Caller(p) EXCEPT !.pc = "g_compute"])
  /\ resp' = NoResp
  /\ UNCHANGED <<now, listing, taxPct, pis, events, cache, locks, bookings, calls>>

\* 2) client.set(lockKey, "1", {NX: true, PX: 5000})
IdemLock(p) ==
  /\ Caller(p).pc = "g_lock"
  /\ idem' = IF ~idem.lock
               THEN [idem EXCEPT !.lock = TRUE,
                                 !.callers[p] = [@ EXCEPT !.pc = "g_again", !.lockOk = TRUE]]
               ELSE SetCaller(p, [Caller(p) EXCEPT !.pc = "g_poll"])
  /\ resp' = NoResp
  /\ UNCHANGED <<now, listing, taxPct, pis, events, cache, locks, bookings, calls>>

\* the winner's re-check: again = client.get(key)
IdemAgain(p) ==
  /\ Caller(p).pc = "g_again"
  /\ idem' = IF idem.store # <<>>
               THEN SetCaller(p, [Caller(p) EXCEPT !.pc = "g_unlock", !.ans = "REPLAY",
                                                   !.val = idem.store[1]])
               ELSE SetCaller(p, [Caller(p) EXCEPT !.pc = "g_compute"])
  /\ resp' = NoResp
  /\ UNCHANGED <<now, listing, taxPct, pis, events, cache, locks, bookings, calls>>

\* value = await compute(): the winner's or the fallback's; a throw leaves
\* the function (through finally for the winner) with nothing stored
IdemCompute(p) ==
  LET c == Caller(p) IN
  /\ c.pc = "g_compute"
  /\ IF ~isParticipant(IdemBooking, c.actor) \/ idem.rec = 0
       THEN LET code == IF ~isParticipant(IdemBooking, c.actor)
                          THEN "NOT_FOUND" ELSE "ERROR"
            IN  IF c.lockOk
                  THEN /\ idem' = SetCaller(p, [c EXCEPT !.pc = "g_unlock", !.ans = code])
                       /\ resp' = NoResp
                  ELSE /\ idem' = SetCaller(p, IdleCaller)
                       /\ resp' = RespIdem(code, 0)
       ELSE /\ idem' = SetCaller(p, [c EXCEPT !.pc = "g_set", !.val = idem.rec])
            /\ resp' = NoResp
  /\ UNCHANGED <<now, listing, taxPct, pis, events, cache, locks, bookings, calls>>

\* client.set(key, JSON.stringify(value), {EX: ttlSecs}); the fallback
\* returns {value, replay: false}
IdemSet(p) ==
  LET c == Caller(p) IN
  /\ c.pc = "g_set"
  /\ IF c.lockOk
       THEN /\ idem' = [idem EXCEPT !.store = <<c.val>>,
                                    !.callers[p] = [c EXCEPT !.pc = "g_unlock",
                                                             !.ans = "COMPUTED"]]
            /\ resp' = NoResp
       ELSE /\ idem' = [idem EXCEPT !.store = <<c.val>>, !.callers[p] = IdleCaller]
            /\ resp' = RespIdem("COMPUTED", c.val)
  /\ UNCHANGED <<now, listing, taxPct, pis, events, cache, locks, bookings, calls>>

\* an unlock placed after the set and not in a finally block: a throw of
\* compute leaves the function with the lock key in place
IdemUnlockNoFinally(p) ==
  LET c == Caller(p) IN
  /\ c.pc = "g_unlock"
  /\ idem' = [idem EXCEPT !.lock = IF c.ans \in {"NOT_FOUND", "ERROR"} THEN @ ELSE FALSE,
                          !.callers[p] = IdleCaller]
  /\ resp' = RespIdem(c.ans, c.val)
  /\ UNCHANGED <<now, listing, taxPct, pis, events, cache, locks, bookings, calls>>

\* finally: client.del(lockKey), whoever holds the lock by now; the winner's
\* return or rethrow
IdemUnlock(p) ==
  LET c == Caller(p) IN
  /\ c.pc = "g_unlock"
  /\ idem' = [idem EXCEPT !.lock = FALSE, !.callers[p] = IdleCaller]
  /\ resp' = RespIdem(c.ans, c.val)
  /\ UNCHANGED <<now, listing, taxPct, pis, events, cache, locks, bookings, calls>>

\* a loser's loop with no time limit
IdemPollForever(p) ==
  LET c == Caller(p) IN
  /\ c.pc = "g_poll"
  /\ IF idem.store # <<>>
       THEN /\ idem' = SetCaller(p, IdleCaller)
            /\ resp' = RespIdem("REPLAY", idem.store[1])
       ELSE /\ idem' = idem
            /\ resp' = NoResp
  /\ UNCHANGED <<now, listing, taxPct, pis, events, cache, locks, bookings, calls>>

\* 3) one round of the loser's loop: client.get(key), sleep(75); after
\* MaxPolls rounds waitForMs is over and 4) the fallback computes
IdemPoll(p) ==
  LET c == Caller(p) IN
  /\ c.pc = "g_poll"
  /\ IF idem.store # <<>>
       THEN /\ idem' = SetCaller(p, IdleCaller)
            /\ resp' = RespIdem("REPLAY", idem.store[1])
       ELSE /\ idem' = SetCaller(p, [c EXCEPT !.n = c.n + 1,
                          !.pc = IF c.n + 1 >= MaxPolls THEN "g_compute" ELSE "g_poll"])
            /\ resp' = NoResp
  /\ UNCHANGED <<now, listing, taxPct, pis, events, cache, locks, bookings, calls>>

\* the lock key's PX: 5000 runs out while the winner is still at work
IdemLockExpire ==
  /\ idem.lock
  /\ idem' = [idem EXCEPT !.lock = FALSE]
  /\ resp' = NoResp
  /\ UNCHANGED <<now, listing, taxPct, pis, events, cache, locks, bookings, calls>>

\* another request (accept, check-in, check-out, webhook) writes the
\* Reservation the wrapped calls answer with
RecordChange ==
  /\ idem.rec < MaxRec
  /\ idem' = [idem EXCEPT !.rec = @ + 1]
  /\ resp' = NoResp
  /\ UNCHANGED <<now, listing, taxPct, pis, events, cache, locks, bookings, calls>>

\* ---- availability reader and quote preview -------------------------------

\* new Date(`${bucket}:00:00.000Z`) / new Date(`${bucket}T00:00:00.000Z`):
\* the instant a bucket begins
bucketStart(b) == IF b[1] = "hour" THEN b[2] * HourMs ELSE b[2] * DayMs

\* blockedByBlackout(bucket): the bucket begins inside a blackout range
blockedByBlackout(b) ==
  \E w \in listing.blackouts : bucketStart(b) >= w[1] /\ bucketStart(b) < w[2]

\* buckets.filter((b) => !lockedSet.has(b) && !blockedByBlackout(b))
isAvailable(b) == ~(\E l \in locks : l.bucket = b) /\ ~blockedByBlackout(b)

\* GET /listings/:id/availability: the free buckets of the window
availableBuckets(s, e) ==
  SelectSeq(enumerateBuckets(s, e, pickGranularity(listing.category)), isAvailable)

\* POST /quotes/preview: lockDocs.length || blackoutHits.length
previewConflict(s, e) ==
  \/ \E l \in locks :
       l.bucket \in Range(enumerateBuckets(s, e, pickGranularity(listing.category)))
  \/ blackoutHits(s, e) # {}

\* the windows a client asks about
Windows == (0..MaxT) \X (0..MaxT)

\* GET /listings/:id/availability?start&end; cp holds the free buckets
GetAvailability(s, e) ==
  /\ resp' = IF e <= s THEN Resp("availability", "INVALID_WINDOW", 0, 0, FALSE)
             ELSE IF listing.status # "active"
               THEN Resp("availability", "LISTING_NOT_FOUND", 0, 0, FALSE)
             ELSE [Resp("availability", "OK", 0, 0, FALSE)
                     EXCEPT !.cp = Range(availableBuckets(s, e))]
  /\ UNCHANGED <<now, listing, taxPct, pis, events, cache, locks, bookings, calls, idem>>

\* POST /quotes/preview
PostPreview(s, e) ==
  /\ resp' = IF e <= s THEN Resp("preview", "INVALID_WINDOW", 0, 0, FALSE)
             ELSE IF listing.status # "active"
               THEN Resp("preview", "LISTING_NOT_FOUND", 0, 0, FALSE)
             ELSE IF previewConflict(s, e)
               THEN [Resp("preview", "UNAVAILABLE", 0, 0, FALSE)
                       EXCEPT !.conflictBuckets =
                         {l.bucket : l \in {x \in locks : x.bucket \in
                            Range(enumerateBuckets(s, e, pickGranularity(listing.category)))}}]
             ELSE Resp("preview", "OK", 0, 0, FALSE)
  /\ UNCHANGED <<now, listing, taxPct, pis, events, cache, locks, bookings, calls, idem>>

\* ---- the bucket calendar called on its own ----------------------------------

\* instants around the bucket boundaries of the first hours and days
EnumInstants ==
  (0..(MaxT + 1)) \cup {d * DayMs + k : d \in 1..2, k \in {-1, 0, 1}}

\* enumerateBuckets(start, end, granularity): the response holds the
\* arguments (pi, bk, res) and the list returned (cp)
CallEnumerate(s, e, g) ==
  /\ resp' = [NoResp EXCEPT !.op = "enumerateBuckets", !.res = g, !.pi = s, !.bk = e,
                            !.cp = {enumerateBuckets(s, e, g)}]
  /\ UNCHANGED <<now, listing, taxPct, pis, events, cache, locks, bookings, calls, idem>>

\* ---- environment ----------------------------------------------------------

Tick ==
  /\ now < MaxNow
  /\ now' = now + 1
  /\ cache' = {x \in cache : x.exp > now + 1}
  /\ resp' = NoResp
  /\ UNCHANGED <<listing, taxPct, pis, events, locks, bookings, calls, idem>>

\* the clock passes to a later instant around the booked window: its start,
\* its end, the end of the check-out grace, and the instant after each
StayInstants ==
  {HourMs, MaxT, MaxT + 1, MaxT + CheckoutGraceMs, MaxT + CheckoutGraceMs + 1}

\* the clock passes to the later instant t; cache entries run out
ElapseTo(t) ==
  /\ t > now
  /\ now' = t
  /\ cache' = {x \in cache : x.exp > t}
  /\ resp' = NoResp
  /\ UNCHANGED <<listing, taxPct, pis, events, locks, bookings, calls, idem>>

Elapse == \E t \in StayInstants : ElapseTo(t)

\* the clock passes on until the last hold taken by MaxNow has run out
ElapseHold == ElapseTo(MaxNow + HoldMs)

\* a store without the TTL index
ExpiredNever(l, t) == FALSE

\* a lock document whose holdUntil has been reached
Expired(l, t) == \E u \in l.holdUntil : u <= t

\* the store's TTL monitor on holdUntil (expireAfterSeconds: 0)
TtlExpire ==
  /\ \E l \in locks :
       /\ Expired(l, now)
       /\ locks' = locks \ {l}
  /\ resp' = NoResp
  /\ UNCHANGED <<now, listing, taxPct, pis, events, cache, bookings, calls, idem>>

\* a deployment with another tax rate
ConfigChange ==
  /\ Len(pis) > 0
  /\ \E t \in TaxPcts : t > taxPct /\ taxPct' = t
  /\ resp' = NoResp
  /\ UNCHANGED <<now, listing, pis, events, cache, locks, bookings, calls, idem>>

KnownHandles == {h \in 1..Len(pis) : pis[h].issued}

\* the steps of the request handler p
StepA(p, reqs, cap) ==
  \/ \E r \in reqs, tok \in Tokens : PostIntents(p, r[1], r[2], r[3], tok, cap)
  \/ LockInsert(p)
  \/ CancelIntent(p)
  \/ CacheSet(p)

StepB(p) ==
  \/ \E user \in Renters, h \in KnownHandles : PostBookings(p, user, h)
  \/ FindLocks(p)
  \/ ReleaseHold(p)
  \/ CreateDoc(p)
  \/ RetagHold(p)

Lifecycle(p) ==
  \/ \E b \in 1..Len(bookings) : AcceptBooking(p, b)
  \/ \E b \in 1..Len(bookings) : ReleaseBooking(p, "host", b, "declined")
  \/ \E b \in 1..Len(bookings), user \in Renters :
       ReleaseBooking(p, user, b, "cancelled")
  \/ RefundCharge(p)
  \/ UnlockWindow(p)
  \/ SaveBooking(p)

Actors == {"host"} \cup Renters

Fulfilment(p) ==
  \/ \E b \in 1..Len(bookings), actor \in Actors : CheckIn(p, actor, b)
  \/ CheckInUpdate(p)
  \/ \E b \in 1..Len(bookings), actor \in Actors : CheckOut(p, actor, b)
  \/ CheckOutUpdate(p)
  \/ Reload(p)

Processor ==
  \/ \E h \in 1..Len(pis) : PaySucceeded(h)
  \/ \E h \in 1..Len(pis) : PayFailed(h)
  \/ \E ev \in events : Webhook(ev)

Environment ==
  \/ Tick
  \/ TtlExpire
  \/ ConfigChange

\* two request handlers at a time, on one renter's request, within one
\* deployment
Next ==
  \/ \E p \in Pair : StepA(p, PairRequests, MaxPI)
  \/ \E p \in Pair : StepB(p)
  \/ \E p \in Pair : Lifecycle(p)
  \/ Processor
  \/ Tick
  \/ TtlExpire

Spec == Init /\ [][Next]_vars

\* one request handler at a time, on one renter's request, across
\* deployments with different tax rates
NextQuote ==
  \/ StepA("p1", PairRequests, MaxPI)
  \/ StepB("p1")
  \/ Lifecycle("p1")
  \/ Processor
  \/ Environment

SpecQuote == Init /\ [][NextQuote]_vars

\* one request handler at a time, on MaxPI payment handles, within one
\* deployment
NextSeq ==
  \/ StepA("p1", Requests, MaxPI)
  \/ StepB("p1")
  \/ Lifecycle("p1")
  \/ Processor
  \/ Tick
  \/ TtlExpire

SpecSeq == Init /\ [][NextSeq]_vars

\* the stay: handler p1 books r2's window, which starts after the booking
\* is made, and the clock passes over the window once the booking exists;
\* p1 and p2 answer fulfilment calls two at a time, p1 every lifecycle call
\* and p2 a second accept
NextStay ==
  \/ StepA("p1", StayRequests, MaxPI) /\ Len(bookings) = 0
  \/ StepB("p1")
  \/ Lifecycle("p1")
  \/ \E b \in 1..Len(bookings) : AcceptBooking("p2", b)
  \/ SaveBooking("p2")
  \/ \E p \in Pair : Fulfilment(p)
  \/ \E h \in 1..Len(pis) : PaySucceeded(h)
  \/ \E ev \in events : Webhook(ev)
  \/ Elapse /\ Len(bookings) > 0

SpecStay == Init /\ [][NextStay]_vars

\* the host's double accept and decline racing a check-in: p1 books and
\* declines, p2 accepts and checks in, p3 accepts
NextCheckinRace ==
  \/ StepA("p1", StayRequests, MaxPI) /\ Len(bookings) = 0
  \/ StepB("p1")
  \/ \E b \in 1..Len(bookings) : ReleaseBooking("p1", "host", b, "declined")
  \/ RefundCharge("p1")
  \/ UnlockWindow("p1")
  \/ \E p \in Procs : SaveBooking(p)
  \/ \E p \in {"p2", "p3"}, b \in 1..Len(bookings) : AcceptBooking(p, b)
  \/ \E b \in 1..Len(bookings), actor \in Actors : CheckIn("p2", actor, b)
  \/ CheckInUpdate("p2")
  \/ Reload("p2")
  \/ \E h \in 1..Len(pis) : PaySucceeded(h)
  \/ \E ev \in events : Webhook(ev)
  \/ Elapse /\ Len(bookings) > 0

SpecCheckinRace == Init /\ [][NextCheckinRace]_vars

\* abandoned checkouts: one handler answers two renters' Step-A calls for the
\* same window; no hold is finalized and no release path runs. The clock
\* goes on, the store's TTL monitor keeps running and a handler that has
\* started goes on to its answer
NextTtl ==
  \/ StepA("p1", TtlRequests, MaxPI)
  \/ Tick
  \/ ElapseHold
  \/ TtlExpire

SpecTtl ==
  /\ Init /\ [][NextTtl]_vars
  /\ WF_vars(ElapseHold)
  /\ WF_vars(TtlExpire)
  /\ WF_vars(LockInsert("p1"))
  /\ WF_vars(CancelIntent("p1"))
  /\ WF_vars(CacheSet("p1"))

\* the pay-first flow on a listing with a blackout range inside the
\* requested window
InitBlackout == InitOn(BlackoutListings)

SpecBlackout == InitBlackout /\ [][NextQuote]_vars

\* one listing, for the calls that read nothing of it
InitIdem == Init /\ listing.category = "misc" /\ ~listing.instantBook

\* calls of the bucket calendar
NextBuckets ==
  \E s \in EnumInstants, e \in EnumInstants, g \in {"hour", "day"} : CallEnumerate(s, e, g)

SpecBuckets == InitIdem /\ [][NextBuckets]_vars

\* the read-only views of a listing while holds come and go
NextAvail ==
  \/ StepA("p1", Requests, MaxPI)
  \/ Tick
  \/ TtlExpire
  \/ \E w \in Windows : GetAvailability(w[1], w[2])
  \/ \E w \in Windows : PostPreview(w[1], w[2])

SpecAvail == InitOn(AvailListings) /\ [][NextAvail]_vars

\* repeated Step-A calls of one renter for one window, with and without an
\* X-Idempotency-Key, two handlers at a time
NextToken ==
  \/ \E p \in Pair, r \in PairRequests, tok \in HdrTokens :
       PostIntents(p, r[1], r[2], r[3], tok, MaxPI)
  \/ \E p \in Pair : LockInsert(p)
  \/ \E p \in Pair : CancelIntent(p)
  \/ \E p \in Pair : CacheSet(p)
  \/ \E h \in 1..Len(pis) : PaySucceeded(h)
  \/ Tick
  \/ TtlExpire

\* the hour-bucketed approval listing: Step A does not read instantBook
InitToken == Init /\ listing.category = "misc" /\ ~listing.instantBook

SpecToken == InitToken /\ [][NextToken]_vars

\* concurrent calls of a fulfilment route with one X-Idempotency-Key
NextIdem ==
  \/ \E p \in Procs, actor \in Actors : IdemGet(p, actor)
  \/ \E p \in Procs : IdemLock(p)
  \/ \E p \in Procs : IdemAgain(p)
  \/ \E p \in Procs : IdemCompute(p)
  \/ \E p \in Procs : IdemSet(p)
  \/ \E p \in Procs : IdemUnlock(p)
  \/ \E p \in Procs : IdemPoll(p)
  \/ IdemLockExpire
  \/ RecordChange

SpecIdem == InitIdem /\ [][NextIdem]_vars

\* two such calls at a time, where handler p2 keeps running (every awaited
\* redis call and compute of its returns), while p1 may stop anywhere, also
\* holding the in-flight lock
Running == {"p2"}

NextIdemLive ==
  \/ \E p \in Pair, actor \in Actors : IdemGet(p, actor)
  \/ \E p \in Pair : IdemLock(p)
  \/ \E p \in Pair : IdemAgain(p)
  \/ \E p \in Pair : IdemCompute(p)
  \/ \E p \in Pair : IdemSet(p)
  \/ \E p \in Pair : IdemUnlock(p)
  \/ \E p \in Pair : IdemPoll(p)
  \/ IdemLockExpire
  \/ RecordChange

SpecIdemLive ==
  /\ InitIdem /\ [][NextIdemLive]_vars
  /\ \A p \in Running :
       /\ WF_vars(IdemLock(p))
       /\ WF_vars(IdemAgain(p))
       /\ WF_vars(IdemCompute(p))
       /\ WF_vars(IdemSet(p))
       /\ WF_vars(IdemUnlock(p))
       /\ WF_vars(IdemPoll(p))

\* the race of Step-A calls that each obtain a handle of their own
NextHold ==
  \/ \E c \in RaceCalls, tok \in Tokens :
       PostIntents(c[1], c[2], c[3], c[4], tok, MaxRace) /\ Len(pis') > Len(pis)
  \/ \E p \in Procs : LockInsert(p)
  \/ \E p \in Procs : CancelIntent(p)
  \/ \E p \in Procs : CacheSet(p)
  \/ \E ev \in events : Webhook(ev)
  \/ Tick
  \/ TtlExpire

SpecHold == Init /\ [][NextHold]_vars

\* Step-A calls, one at a time, for windows that overlap in time
NextOverlap ==
  \/ StepA("p1", OverlapRequests, MaxPI)
  \/ Tick
  \/ TtlExpire

SpecOverlap == Init /\ [][NextOverlap]_vars

\* --------------------------------------------------------------------
\* Properties
\* --------------------------------------------------------------------
LiveStates == {"pending", "accepted", "in_progress"}

\* the buckets of a Reservation's window, as Step B computed them
BookingBuckets(b) ==
  Range(enumerateBuckets(bookings[b].s, bookings[b].e, bookings[b].g))

\* C1: no two Reservations of the resource that are both pending, accepted
\* or in_progress have windows that share a bucket.
C1_NoDoubleBooking ==
  \A b1, b2 \in 1..Len(bookings) :
    (b1 # b2 /\ bookings[b1].state \in LiveStates /\ bookings[b2].state \in LiveStates)
      => BookingBuckets(b1) \cap BookingBuckets(b2) = {}

\* C2: at most one Lock per (resource, bucket), whatever the interleaving of
\* lockBuckets, unlockBuckets, unlockByReason, retagLocks and TTL expiry.
C2_OneLockPerBucket ==
  \A l1, l2 \in locks : l1.bucket = l2.bucket => l1 = l2

\* a lockBuckets insert was refused for a bucket that is locked
C2_Witness ==
  \E p \in Procs :
    /\ calls[p].pc = "a_cancel"
    /\ \E l \in locks : l.bucket \in Range(PiBuckets(calls[p].pi))

\* the Step-A calls of the race have all answered
RaceOver == \A p \in Procs : calls[p].pc = "idle"

\* no hold opened by a call of the race has reached its holdUntil
HoldsLive == \A h \in 1..Len(pis) : now < pis[h].created + HoldMs

PairwiseOverlap ==
  \A h1, h2 \in 1..Len(pis) :
    Range(PiBuckets(h1)) \cap Range(PiBuckets(h2)) # {}

\* the call that obtained handle h answered 200 and h holds its window
Holds(h) ==
  /\ pis[h].issued /\ pis[h].status # "canceled"
  /\ \A b \in Range(PiBuckets(h)) :
       \E l \in locks : l.bucket = b /\ l.reason = piReason(h)

\* the call that obtained handle h answered 409 UNAVAILABLE
Lost(h) == ~pis[h].issued /\ pis[h].status = "canceled"

\* C3: of N >= 2 concurrent Step-A calls with handles of their own, for
\* windows that pairwise share a bucket on a resource without locks, exactly
\* one holds its window and every other one fails with UNAVAILABLE.
C3_ExactlyOneHolds ==
  (Len(pis) >= 2 /\ PairwiseOverlap /\ RaceOver /\ HoldsLive)
    => \E h \in 1..Len(pis) :
         Holds(h) /\ \A g \in 1..Len(pis) \ {h} : Lost(g)

\* three calls raced and answered, one after a partial insert
C3_Witness ==
  /\ Len(pis) = MaxRace /\ PairwiseOverlap /\ RaceOver /\ HoldsLive
  /\ \E g \in 1..Len(pis) :
       Lost(g) /\ \E l \in locks : l.reason = piReason(g)

\* C4: after a Step-A call answered UNAVAILABLE, no Lock tagged pi:<handle>
\* of that call exists: lockBuckets locks all buckets of the window or none.
C4_NoPartialHold ==
  (resp.op = "intent" /\ resp.res = "UNAVAILABLE")
    => \A l \in locks : l.reason # piReason(resp.pi)

\* C5: a second Step B with the same succeeded handle, made after the first
\* created the Reservation, returns that Reservation without error and
\* creates no second one.
C5_RetryReturnsBooking ==
  (resp.op = "booking" /\ resp.retry /\ resp.res \in {"OK", "UNAVAILABLE", "E11000"})
    => /\ resp.res = "OK"
       /\ BookingOfPi(resp.pi) = {resp.bk}

\* C6: at most one Reservation per payment handle ever exists, also when
\* Step-B calls for the handle run concurrently.
C6_OneBookingPerHandle ==
  \A h \in 1..Len(pis) : Cardinality(BookingOfPi(h)) <= 1

\* of two concurrent Step-B calls for a handle, the second Booking.create was
\* refused
C6_Witness ==
  /\ resp.op = "booking" /\ resp.res = "E11000"
  /\ Cardinality(BookingOfPi(resp.pi)) = 1

\* C7: whenever the recomputed quote, the metadata total and the captured
\* amount are not all equal, Step B fails and creates no Reservation; the
\* failure is AMOUNT_MISMATCH for a handle whose amount was captured
\* (succeeded), finalized by the renter of its metadata.
C7_AmountMismatch ==
  [][\A p \in Procs, user \in Renters, h \in 1..Len(pis) :
       ( /\ PostBookings(p, user, h)
         /\ ~( /\ computeQuote(pis[h].md.s, pis[h].md.e) = pis[h].md.totalCents
               /\ pis[h].md.totalCents = pis[h].amount ) )
       => /\ resp'.op = "booking" /\ resp'.res # "OK"
          /\ (pis[h].status = "succeeded" /\ pis[h].md.renterId = user)
               => resp'.res = "AMOUNT_MISMATCH"
          /\ bookings' = bookings
          /\ calls'[p].pc = "idle"]_vars

\* a Step B was refused for a quote that changed since the handle was issued
C7_Witness ==
  /\ resp.op = "booking" /\ resp.res = "AMOUNT_MISMATCH"
  /\ pis[resp.pi].status = "succeeded"
  /\ computeQuote(pis[resp.pi].md.s, pis[resp.pi].md.e) # pis[resp.pi].amount

\* C8: Step B creates a Reservation only for a handle the processor reports
\* succeeded; for any other status it fails, creates no Reservation and
\* changes no Lock.
C8_OnlySucceeded ==
  [][/\ \A p \in Pair, user \in Renters, h \in 1..Len(pis) :
          (PostBookings(p, user, h) /\ pis[h].status # "succeeded")
            => /\ resp'.op = "booking" /\ resp'.res = "PI_NOT_SUCCEEDED"
               /\ bookings' = bookings
               /\ locks' = locks
               /\ calls'[p].pc = "idle"
     /\ Len(bookings') > Len(bookings)
          => pis[bookings'[Len(bookings')].rentalIntentId].status = "succeeded"]_vars

\* a Step B was refused for a handle that is not succeeded and holds locks
C8_Witness ==
  /\ resp.op = "booking" /\ resp.res = "PI_NOT_SUCCEEDED"
  /\ \E l \in locks : l.reason = piReason(resp.pi)

\* C9: if at Step B a bucket of the window has no Lock tagged with the
\* handle, Step B fails with UNAVAILABLE, creates no Reservation, and
\* afterwards no Lock tagged with the handle exists.
C9_MissingHold ==
  [][\A p \in Pair :
       LET c == calls[p]
           missing == \E b \in Range(PiBuckets(c.pi)) :
                        ~\E l \in locks : l.bucket = b /\ l.reason = piReason(c.pi)
       IN  /\ (c.pc = "b_find" /\ calls'[p] # c /\ missing)
                => calls'[p].pc = "b_unlock" /\ bookings' = bookings
           /\ (c.pc = "b_unlock" /\ calls'[p] # c)
                => /\ resp'.op = "booking" /\ resp'.res = "UNAVAILABLE"
                   /\ resp'.pi = c.pi
                   /\ bookings' = bookings
                   /\ calls'[p].pc = "idle"
                   /\ \A l \in locks' : l.reason # piReason(c.pi)]_vars

\* a first Step B for a handle answered UNAVAILABLE
C9_Witness ==
  /\ resp.op = "booking" /\ resp.res = "UNAVAILABLE" /\ ~resp.retry
  /\ BookingOfPi(resp.pi) = {}

\* C10: when Step B returns a Reservation, every bucket of its window carries
\* a Lock tagged booking:<id> with holdUntil cleared, and no Lock tagged with
\* the payment handle remains, for every interleaving with hold expiry.
C10_HoldConverted ==
  (resp.op = "booking" /\ resp.res = "OK")
    => /\ \A b \in BookingBuckets(resp.bk) :
            \E l \in locks : /\ l.bucket = b
                              /\ l.reason = bookingReason(resp.bk)
                              /\ l.holdUntil = {}
       /\ \A l \in locks : l.reason # piReason(resp.pi)

\* --------------------------------------------------------------------
\* Lifecycle and fulfilment
\* --------------------------------------------------------------------

\* the state changes of a Reservation after its creation
AllowedTransitions ==
  {<<"pending", "accepted">>, <<"pending", "declined">>,
   <<"pending", "cancelled">>, <<"accepted", "in_progress">>,
   <<"in_progress", "completed">>}

\* C11: a Reservation is created pending or accepted, and every later change
\* of its state is pending -> accepted, pending -> declined, pending ->
\* cancelled, accepted -> in_progress or in_progress -> completed; declined,
\* cancelled and completed are never left, whatever the interleaving of the
\* handlers
C11_StateTransitions ==
  [][/\ Len(bookings') >= Len(bookings)
     /\ \A b \in 1..Len(bookings) :
          \/ bookings'[b].state = bookings[b].state
          \/ <<bookings[b].state, bookings'[b].state>> \in AllowedTransitions
     /\ \A b \in (Len(bookings) + 1)..Len(bookings') :
          bookings'[b].state \in {"pending", "accepted"}]_vars

\* C12: accept, decline or cancel by the entitled party on a Reservation that
\* is not pending answers without error with the record as it is, and
\* changes nothing: no state change, no refund request, no lock release
C12_NonPendingNoop ==
  [][\A p \in Procs, b \in 1..Len(bookings) :
       (/\ bookings[b].state # "pending"
        /\ \/ AcceptBooking(p, b)
           \/ ReleaseBooking(p, "host", b, "declined")
           \/ ReleaseBooking(p, bookings[b].renterId, b, "cancelled"))
       => /\ resp'.res = "OK" /\ resp'.bk = b
          /\ calls'[p] = IdleCall
          /\ bookings' = bookings /\ locks' = locks /\ pis' = pis]_vars

\* C13: once a decline or cancel of a Reservation has completed, no Lock
\* remains on a bucket that was locked for that Reservation at commit,
\* whatever the window (aligned or not) and the granularity
C13_ReleaseCoversCommit ==
  \A b \in 1..Len(bookings) :
    bookings[b].state \in {"declined", "cancelled"}
      => \A l \in locks :
           ~(/\ l.bucket \in BookingBuckets(b)
             /\ l.reason \in {bookingReason(b),
                              piReason(bookings[b].rentalIntentId)})

\* C14: over any sequence or interleaving of decline and cancel calls on a
\* Reservation, a refund of its charge is requested from the payment
\* processor at most once
C14_RefundOnce ==
  \A b \in 1..Len(bookings) : pis[bookings[b].rentalIntentId].refunds <= 1

\* C15: a declined or cancelled Reservation never has paymentStatus paid:
\* decline and cancel of a paid Reservation leave it refunded, and no later
\* event (such as a late payment_intent.succeeded) sets it back to paid
C15_ReleasedNotPaid ==
  \A b \in 1..Len(bookings) :
    bookings[b].state \in {"declined", "cancelled"}
      => bookings[b].paymentStatus # "paid"

\* C16: a check-in moves a Reservation to in_progress and records the
\* check-in checkpoint only when the actor is the listing's owner or the
\* requester, the state is accepted, paymentStatus is paid and the clock is
\* within [start, end]; with no check-in recorded, a participant's check-in
\* on a wrong state or an unpaid Reservation fails with INVALID_STATE, one
\* outside the window with INVALID_WINDOW, and the Reservation is unchanged
C16_CheckInGuards ==
  [][/\ \A p \in Procs, actor \in Actors, b \in 1..Len(bookings) :
          (/\ bookings[b].checkin = {}
           /\ isParticipant(bookings[b], actor)
           /\ calls[p].pc = "idle"
           /\ (resp'.op = "checkin" \/ calls'[p].pc = "ci_update")
           /\ CheckIn(p, actor, b))
          => IF \/ bookings[b].state # "accepted"
                \/ bookings[b].paymentStatus # "paid"
               THEN /\ resp' = RespCp("checkin", "INVALID_STATE", b, {})
                    /\ bookings' = bookings
             ELSE IF ~(now >= bookings[b].s /\ now <= bookings[b].e)
               THEN /\ resp' = RespCp("checkin", "INVALID_WINDOW", b, {})
                    /\ bookings' = bookings
             ELSE bookings' = bookings
     /\ \A b \in 1..Len(bookings) :
          (\/ bookings[b].checkin # bookings'[b].checkin
           \/ /\ bookings[b].state # "in_progress"
              /\ bookings'[b].state = "in_progress")
          => /\ bookings[b].state = "accepted"
             /\ bookings[b].paymentStatus = "paid"
             /\ bookings[b].checkin = {}
             /\ bookings'[b].state = "in_progress"
             /\ bookings'[b].checkin # {}
             /\ \A cp \in bookings'[b].checkin :
                  /\ isParticipant(bookings[b], cp.by)
                  /\ cp.at >= bookings[b].s /\ cp.at <= bookings[b].e]_vars

HoldExpiries == {t + HoldMs : t \in 0..MaxNow}

\* the Locks that handle h holds until u
HeldUntil(h, u) ==
  {l \in locks : l.reason = piReason(h) /\ l.holdUntil = {u}}

\* the buckets of the window of handle h carry no Lock document
WindowFree(h) == \A l \in locks : l.bucket \notin Range(PiBuckets(h))

\* C19: the Locks of a Step-A hold that is never finalized and that no
\* release is called for are eventually removed, given that the clock goes
\* on and the store's TTL expiry keeps running; and a new Step A that then
\* starts to acquire the window, with no Lock left on it, succeeds
C19_HoldExpires ==
  /\ \A h \in 1..MaxPI, u \in HoldExpiries :
       (HeldUntil(h, u) # {}) ~> (HeldUntil(h, u) = {})
  /\ \A h \in 1..MaxPI :
       (/\ calls["p1"].pc = "a_lock" /\ calls["p1"].pi = h
        /\ calls["p1"].i = 1 /\ WindowFree(h))
       ~> (resp.op = "intent" /\ resp.res = "OK" /\ resp.pi = h)

\* after the hold of one renter ran out and its Locks were removed, the
\* other renter's Step A for the same window has succeeded
C19_Witness ==
  /\ resp.op = "intent" /\ resp.res = "OK"
  /\ \E h \in 1..Len(pis) :
       /\ h # resp.pi
       /\ pis[h].md.s = pis[resp.pi].md.s /\ pis[h].md.e = pis[resp.pi].md.e
       /\ pis[h].status = "requires_payment_method"
       /\ pis[h].created + HoldMs <= now
       /\ \A l \in locks : l.reason # piReason(h)
  /\ \E l \in locks : l.reason = piReason(resp.pi)

\* C20: a Step-A lock acquisition attempted after the holdUntil of an
\* existing hold has passed is never refused because of that hold, whether
\* or not a sweep or release has run: an insert is refused only when the
\* bucket carries a Lock that has no holdUntil or whose holdUntil has not
\* passed
C20_ExpiredHoldInvisible ==
  [][\A p \in Procs :
       (calls[p].pc = "a_lock" /\ calls'[p].pc = "a_cancel")
       => \E l \in locks :
            /\ l.bucket = PiBuckets(calls[p].pi)[calls[p].i]
            /\ \A u \in l.holdUntil : u >= now]_vars

\* C21: a Step-A call made while the idempotency cache holds a live handle
\* for its key (the X-Idempotency-Key, or the derived key of renter, window
\* and price) answers with that handle and ends there: no new handle is
\* created and no Lock is inserted.
C21_RepeatReplays ==
  [][\A p \in Pair, r \in PairRequests, tok \in HdrTokens :
       LET k == IntentKey(r[1], r[2], r[3], computeQuote(r[2], r[3]), tok)
           live == {c.pi : c \in {x \in cache : pis[x.pi].key = k
                                     /\ pis[x.pi].status \in LiveStatuses}}
       IN  (live # {} /\ calls[p].pc = "idle"
              /\ PostIntents(p, r[1], r[2], r[3], tok, MaxPI))
           => /\ resp'.res = "REPLAY"
              /\ resp'.pi \in live
              /\ Len(pis') = Len(pis)
              /\ calls'[p].pc = "idle"
              /\ locks' = locks]_vars

\* a replayed call answered while the hold of the first call is in place
C21_Witness ==
  /\ resp.op = "intent"
  /\ resp.res = "REPLAY"
  /\ pis[resp.pi].key[1] = "hdr"
  /\ \E l \in locks : l.reason = piReason(resp.pi)
  /\ Len(pis) = 1

\* C22: of two concurrent Step-A calls with the same idempotency key, which
\* the processor answers with the same handle, neither is refused because of
\* the Lock the other inserted for that handle, so neither cancels it.
C22_ConcurrentSameKey ==
  [][\A p \in Pair, q \in Pair :
       (/\ p # q
        /\ calls[p].pc = "a_lock"
        /\ calls[q].pc \in {"a_lock", "a_cache"}
        /\ calls[q].pi = calls[p].pi
        /\ calls'[p].pc = "a_cancel")
       => \E l \in locks : /\ l.bucket = PiBuckets(calls[p].pi)[calls[p].i]
                           /\ l.reason # piReason(calls[p].pi)]_vars

\* C23: when a Step-A call that obtained a payment handle answers
\* UNAVAILABLE, the processor holds that handle as cancelled.
C23_RefusedIsCancelled ==
  (resp.op = "intent" /\ resp.res = "UNAVAILABLE")
    => pis[resp.pi].status = "canceled"


\* C24: Step A creates no payment handle and no hold for a window that
\* overlaps a blackout range of the resource.
C24_BlackoutRefused ==
  /\ \A h \in 1..Len(pis) : blackoutHits(pis[h].md.s, pis[h].md.e) = {}
  /\ \A l \in locks : \A h \in 1..Len(pis) :
       l.reason = piReason(h) => blackoutHits(pis[h].md.s, pis[h].md.e) = {}

\* C25: the UNAVAILABLE failure of a Step-A call refused by existing Locks
\* lists the conflicting buckets: its conflictBuckets names a bucket of the
\* requested window.
C25_ConflictBucketsListed ==
  (resp.op = "intent" /\ resp.res = "UNAVAILABLE")
    => resp.conflictBuckets \cap Range(PiBuckets(resp.pi)) # {}

\* C26: a payment_failed or canceled event for handle H deletes every Lock
\* tagged pi:H and changes nothing else: every Lock with another tag and
\* every Reservation is as before.
C26_FailureFrame ==
  [][/\ \A h \in 1..Len(pis) :
          PayFailed(h) => /\ locks' = {l \in locks : l.reason # piReason(h)}
                          /\ bookings' = bookings
     /\ \A ev \in events :
          (ev.type = "canceled" /\ Webhook(ev))
            => /\ locks' = {l \in locks : l.reason # piReason(ev.pi)}
               /\ bookings' = bookings]_vars

\* the canceled event of a refused handle has been delivered while the
\* Locks of a Reservation on the same window are in place
C26_Witness ==
  \E h \in 1..Len(pis) :
    /\ pis[h].status = "canceled"
    /\ [type |-> "canceled", pi |-> h] \notin events
    /\ \A l \in locks : l.reason # piReason(h)
    /\ \E b \in 1..Len(bookings) :
         /\ bookings[b].state \in LiveStates
         /\ \E l \in locks : l.reason = bookingReason(b)

\* C27: when Step B answers UNAVAILABLE for a captured handle that has no
\* Reservation, a refund of the charge has been requested.
C27_RefusedIsRefunded ==
  (/\ resp.op = "booking"
   /\ resp.res = "UNAVAILABLE"
   /\ pis[resp.pi].status = "succeeded"
   /\ BookingOfPi(resp.pi) = {})
    => pis[resp.pi].refunds > 0


\* C28: the total of every Reservation's pricing snapshot is the amount
\* captured on its payment handle, from the step that creates the
\* Reservation on, and no later step changes it.
C28_SnapshotIsCaptured ==
  [][\A b \in 1..Len(bookings') :
       /\ bookings'[b].totalCents = pis'[bookings'[b].rentalIntentId].amount
       /\ b <= Len(bookings) => bookings'[b].totalCents = bookings[b].totalCents]_vars

\* a Reservation that went through a lifecycle transition under a tax
\* configuration whose quote is no longer the captured amount
C28_Witness ==
  \E b \in 1..Len(bookings) :
    /\ bookings[b].state \in {"accepted", "declined", "cancelled"}
    /\ ~listing.instantBook
    /\ computeQuote(bookings[b].s, bookings[b].e) # bookings[b].totalCents
    /\ bookings[b].totalCents = pis[bookings[b].rentalIntentId].amount

\* C29: a getOrSetIdempotent caller goes on to compute only (a) from the
\* re-check it made holding the in-flight lock, when that found nothing
\* stored, or (b) having failed to get the lock, from the last round of its
\* bounded wait, when every round found nothing stored; a caller whose read
\* finds a stored result answers with it, replay = true, and does not compute.
C29_ComputeOnlyWhen ==
  [][\A p \in Procs :
       LET c == idem.callers[p]
           d == idem'.callers[p]
       IN  /\ (c.pc # "g_compute" /\ d.pc = "g_compute")
                => \/ c.pc = "g_again" /\ c.lockOk /\ idem.store = <<>>
                   \/ /\ c.pc = "g_poll" /\ ~c.lockOk /\ idem.store = <<>>
                      /\ c.n = MaxPolls - 1 /\ d.n = MaxPolls
           /\ (idem.store # <<>> /\ \E actor \in Actors : IdemGet(p, actor))
                => resp' = RespIdem("REPLAY", idem.store[1]) /\ d.pc = "idle"
           /\ (idem.store # <<>> /\ c.pc = "g_poll" /\ d # c)
                => resp' = RespIdem("REPLAY", idem.store[1]) /\ d.pc = "idle"
           /\ (idem.store # <<>> /\ c.pc = "g_again" /\ d # c)
                => d.pc = "g_unlock" /\ d.ans = "REPLAY" /\ d.val = idem.store[1]
           /\ resp'.res = "REPLAY" /\ resp'.op = "idem" /\ d # c
                => c.pc \in {"g_poll", "g_unlock"} /\ (c.pc = "g_unlock" => c.ans = "REPLAY")]_vars

\* the winner and a loser whose bounded wait found nothing are both past
\* their compute, each about to store its result
C29_Witness ==
  \E p \in Procs, q \in Procs :
    /\ idem.callers[p].pc = "g_set" /\ idem.callers[p].lockOk
    /\ idem.callers[q].pc = "g_set" /\ ~idem.callers[q].lockOk
    /\ idem.callers[q].n = MaxPolls
    /\ idem.lock

\* C30: once a result is stored under an idempotency key, it is never
\* replaced by a different one.
C30_StoredResultStable ==
  [][idem.store # <<>> => idem'.store = idem.store]_vars


\* C31: every getOrSetIdempotent call of a running handler returns: a
\* caller that did not get the in-flight lock polls for the bounded wait and
\* then computes itself, also when the lock holder never finishes and never
\* stores a result.
C31_CallTerminates ==
  \A p \in Running :
    (idem.callers[p].pc # "idle") ~> (idem.callers[p].pc = "idle")

\* a fallback caller has computed, stored and returned while the holder of
\* the in-flight lock, p1, is still before its compute
C31_Witness ==
  /\ resp.op = "idem"
  /\ resp.res = "COMPUTED"
  /\ idem.lock
  /\ idem.callers["p1"].lockOk
  /\ idem.callers["p1"].pc \in {"g_again", "g_compute"}

\* C32: a check-in or check-out call of an authenticated user who is neither
\* the host nor the renter of the Reservation is answered NOT_FOUND and with
\* nothing else, with an X-Idempotency-Key (the getOrSetIdempotent calls) as
\* without one (the plain calls).
C32_StrangerNotFound ==
  [][\A p \in Procs, a \in Actors :
       /\ ~isParticipant(IdemBooking, a)
            => /\ IdemGet(p, a) => resp'.res \in {"", "NOT_FOUND"}
               /\ (idem.callers[p].actor = a /\ idem'.callers[p] # idem.callers[p])
                    => resp'.res \in {"", "NOT_FOUND"}
       /\ \A b \in 1..Len(bookings) :
            (~isParticipant(bookings[b], a) /\ calls[p].pc = "idle"
               /\ (CheckIn(p, a, b) \/ CheckOut(p, a, b)))
              => resp'.res = "NOT_FOUND" /\ resp'.cp = {}]_vars

\* C33: for every state of the resource and every window, the quote preview
\* finds the window unavailable exactly when the availability reader leaves
\* out at least one bucket of the window.
C33_PreviewAgreesWithReader ==
  \A w \in Windows :
    w[2] > w[1] =>
      (previewConflict(w[1], w[2])
         <=> Len(availableBuckets(w[1], w[2]))
               < Len(enumerateBuckets(w[1], w[2], pickGranularity(listing.category))))

\* C34: enumerateBuckets(start, end, granularity) returns, in strictly
\* ascending order and without duplicates, exactly the hour (or UTC day)
\* buckets whose interval meets [start, end): nothing iff end <= start, first
\* the bucket that contains start, and exactly that one bucket for a window
\* lying inside one bucket.
C34_EnumerateExact ==
  resp.op = "enumerateBuckets" =>
    LET s == resp.pi
        e == resp.bk
        g == resp.res
        w == IF g = "hour" THEN HourMs ELSE DayMs
        out == CHOOSE o \in resp.cp : TRUE
        meets == {k \in 0..((e \div w) + 1) : k * w < e /\ (k + 1) * w > s /\ e > s}
    IN  /\ \A i \in 1..Len(out) : out[i][1] = g
        /\ \A i \in 1..(Len(out) - 1) : out[i][2] < out[i + 1][2]
        /\ {out[i][2] : i \in 1..Len(out)} = meets
        /\ (Len(out) = 0) <=> (e <= s)
        /\ e > s => out[1] = <<g, s \div w>>
        /\ (e > s /\ (e - 1) \div w = s \div w) => out = << <<g, s \div w>> >>

\* a call for a window that begins and ends inside day buckets and spans
\* more than one
C34_Witness ==
  /\ resp.op = "enumerateBuckets"
  /\ resp.res = "day"
  /\ resp.pi % DayMs # 0
  /\ resp.bk % DayMs # 0
  /\ \E o \in resp.cp : Len(o) >= 2

\* C35: whenever no request is in flight, every bucket of the window of a
\* Reservation in state pending, accepted or in_progress carries a Lock
\* tagged booking:<id> with holdUntil unset.
C35_LiveReservationLocked ==
  (\A p \in Procs : calls[p].pc = "idle")
    => \A b \in 1..Len(bookings) :
         bookings[b].state \in LiveStates
           => \A k \in BookingBuckets(b) :
                \E l \in locks : /\ l.bucket = k
                                  /\ l.reason = bookingReason(b)
                                  /\ l.holdUntil = {}

\* C36: in every reachable state a Reservation holds a check-in checkpoint
\* iff its state is in_progress or completed, and a check-out checkpoint iff
\* its state is completed, also under concurrent duplicate check-in and
\* check-out calls.
C36_CheckpointMatchesState ==
  \A b \in 1..Len(bookings) :
    /\ (bookings[b].checkin # {}) <=> (bookings[b].state \in {"in_progress", "completed"})
    /\ (bookings[b].checkout # {}) <=> (bookings[b].state = "completed")

\* C37: when Step B answers AMOUNT_MISMATCH for a payment handle, no Lock
\* tagged with that payment handle is left on the resource.
C37_MismatchReleasesHold ==
  (resp.op = "booking" /\ resp.res = "AMOUNT_MISMATCH")
    => \A l \in locks : l.reason # piReason(resp.pi)

\* C38: the unlock step of a decline or cancel of Reservation R deletes only
\* Locks tagged booking:R; every Lock tagged with another Reservation or with
\* a payment handle, also one on a bucket of R, is still there after the step.
C38_ReleaseFrame ==
  [][\A p \in Procs :
       (calls[p].pc = "l_unlock" /\ calls'[p].pc = "l_save")
         => \A l \in locks :
              l.reason # bookingReason(calls[p].bk) => l \in locks']_vars

\* every bucket of the window of handle h carries a Lock tagged pi:<h>
Held(h) ==
  \A k \in Range(PiBuckets(h)) :
    \E l \in locks : l.bucket = k /\ l.reason = piReason(h)

\* C39: two payment handles of the resource whose windows overlap in time
\* have, under the resource's granularity, at least one bucket of
\* enumerateBuckets in common, and are never both holding their whole window.
C39_OverlapSharesBucket ==
  \A h1 \in 1..Len(pis), h2 \in 1..Len(pis) :
    (h1 # h2 /\ overlaps(pis[h1].md.s, pis[h1].md.e, pis[h2].md.s, pis[h2].md.e))
      => /\ Range(PiBuckets(h1)) \cap Range(PiBuckets(h2)) # {}
         /\ ~(Held(h1) /\ Held(h2))

\* on an hourly resource, a request whose window overlaps the held window
\* of another handle, which starts off the hour boundary, is refused
C39_Witness ==
  \E h1 \in 1..Len(pis), h2 \in 1..Len(pis) :
    /\ h1 # h2
    /\ listing.category \in HOUR_CATS
    /\ pis[h1].md.s % HourMs # 0
    /\ <<pis[h1].md.s, pis[h1].md.e>> # <<pis[h2].md.s, pis[h2].md.e>>
    /\ overlaps(pis[h1].md.s, pis[h1].md.e, pis[h2].md.s, pis[h2].md.e)
    /\ Held(h1)
    /\ resp.op = "intent" /\ resp.res = "UNAVAILABLE" /\ resp.pi = h2

\* C40: a compute that throws inside getOrSetIdempotent stores nothing under
\* the key (the caller does not go on to the set, and the stored result is
\* what it was); the caller that took the in-flight lock leaves with the
\* lock key deleted; the caller's answer is the error compute threw; and
\* a call that finds nothing stored goes on to the lock and to compute, a
\* stored result never being an error.
C40_ThrowStoresNothing ==
  [][\A p \in Procs :
       LET c == idem.callers[p]
           d == idem'.callers[p]
           threw == c.pc = "g_compute" /\ d.pc \notin {"g_compute", "g_set"}
           rethrown == c.pc = "g_unlock" /\ c.ans \in {"NOT_FOUND", "ERROR"} /\ d.pc = "idle"
       IN  /\ threw => /\ idem'.store = idem.store
                       /\ IF c.lockOk
                            THEN d.pc = "g_unlock" /\ d.ans \in {"NOT_FOUND", "ERROR"}
                            ELSE d.pc = "idle" /\ resp'.op = "idem"
                                   /\ resp'.res \in {"NOT_FOUND", "ERROR"}
           /\ rethrown => /\ idem'.store = idem.store
                          /\ ~idem'.lock
                          /\ resp'.op = "idem" /\ resp'.res = c.ans
           /\ (c.pc = "idle" /\ idem.store = <<>> /\ d # c) => d.pc = "g_lock"
           /\ idem'.store # <<>> => idem'.store[1] >= 1]_vars

\* the call that took the in-flight lock has answered with the error its
\* compute threw: nothing is stored, the lock key is gone, and no call is
\* at work, so that the next call starts from the read of the key
C40_Witness ==
  /\ resp.op = "idem"
  /\ resp.res = "ERROR"
  /\ idem.store = <<>>
  /\ ~idem.lock
  /\ \A p \in Procs : Caller(p).pc = "idle"

====
